---- MODULE Spec2Model ----
(***************************************************************************)
(* Model of nula-packages.py: the storage-layout initialiser, the command  *)
(* dispatcher, install_pkg (fetch, write, project copy) and list_pkgs,     *)
(* running as one or two invocations over a shared filesystem.             *)
(*                                                                         *)
(* A path is a sequence of components; a component is a pair <<stem, ext>> *)
(* so that f"{pkg}.nula" (the last segment of pkg with ".nula" appended)   *)
(* is a different component from the bare segment.  A package name is the  *)
(* sequence of its "/"-separated segments ("../a" is <<"..", "a">>).       *)
(* File contents and response bodies are sequences of bytes.               *)
(***************************************************************************)
EXTENDS Integers, Sequences, FiniteSets, TLC

\* ---------------------------------------------------------------- bounds
MaxRuns == 2
MaxBodyLen == 2

Procs == {1, 2}

\* ---------------------------------------------------------------- paths
C(s) == <<s, "">>
Up == C("..")

home_dir == <<C("home")>>
nula_dir == home_dir \o <<C(".nula")>>
lib_dir == nula_dir \o <<C("lib")>>
\* os.getcwd(): the invocations run in the project directory /home/proj
current_dir == home_dir \o <<C("proj")>>
project_lib == current_dir \o <<C("lib")>>

Front(s) == SubSeq(s, 1, Len(s) - 1)
Last(s) == s[Len(s)]

\* f"{pkg}.nula" as path components: every segment but the last is a
\* directory component, the last one carries the extension
PkgFile(pkg) ==
  [i \in 1..Len(pkg) |-> IF i = Len(pkg) THEN <<pkg[i], ".nula">> ELSE C(pkg[i])]

\* os.path.join(base, name): a name that starts with "/" (first segment
\* empty, more segments following) replaces the base
Join(base, comps) ==
  IF Len(comps) > 1 /\ comps[1] = C("") THEN SubSeq(comps, 2, Len(comps))
  ELSE base \o comps

\* f"https://hypothetical-nula-repo.com/libs/{pkg}.nula"
Url(pkg) == <<"https://hypothetical-nula-repo.com/libs/", pkg, ".nula">>

\* ---------------------------------------------------------------- filesystem
\* fs maps every existing path (already resolved, no "..") to its node
Dir == [kind |-> "dir", content |-> <<>>]
File(b) == [kind |-> "file", content |-> b]

Exists(f, path) == path = <<>> \/ path \in DOMAIN f
IsDir(f, path) == path = <<>> \/ (path \in DOMAIN f /\ f[path].kind = "dir")
IsFile(f, path) == path \in DOMAIN f /\ f[path].kind = "file"

Put(f, path, node) == [q \in DOMAIN f \cup {path} |-> IF q = path THEN node ELSE f[q]]

\* kernel path walk: every component but the last is looked up in a
\* directory that must exist; ".." steps to the parent
RECURSIVE Walk(_, _, _)
Walk(f, cur, rest) ==
  IF rest = <<>> THEN [ok |-> TRUE, path |-> cur, err |-> "none"]
  ELSE IF ~Exists(f, cur) THEN [ok |-> FALSE, path |-> cur, err |-> "FileNotFoundError"]
  ELSE IF ~IsDir(f, cur) THEN [ok |-> FALSE, path |-> cur, err |-> "NotADirectoryError"]
  ELSE IF Head(rest) = Up
       THEN Walk(f, IF cur = <<>> THEN cur ELSE Front(cur), Tail(rest))
       ELSE Walk(f, cur \o <<Head(rest)>>, Tail(rest))

Resolve(f, path) == Walk(f, <<>>, path)

\* os.path.exists(path)
os_path_exists(f, path) ==
  LET r == Resolve(f, path) IN r.ok /\ Exists(f, r.path)

\* os.path.isdir(path)
os_path_isdir(f, path) ==
  LET r == Resolve(f, path) IN r.ok /\ IsDir(f, r.path)

\* os.makedirs(path) without exist_ok: missing parents are created, the
\* leaf must not exist and its parent must be a directory
RECURSIVE os_makedirs(_, _)
os_makedirs(f, path) ==
  LET head == Front(path)
      up == IF head # <<>> /\ ~Exists(f, head)
            THEN os_makedirs(f, head)
            ELSE [ok |-> TRUE, fs |-> f, err |-> "none"]
  IN IF ~up.ok THEN up
     ELSE IF Exists(up.fs, path) THEN [ok |-> FALSE, fs |-> up.fs, err |-> "FileExistsError"]
     ELSE IF ~IsDir(up.fs, head) THEN [ok |-> FALSE, fs |-> up.fs, err |-> "NotADirectoryError"]
     ELSE [ok |-> TRUE, fs |-> Put(up.fs, path, Dir), err |-> "none"]

\* (variant: a mode that opens without truncating, as "r+b" or "ab" would)
open_keep(f, path) ==
  LET r == Resolve(f, path) IN
  IF ~r.ok THEN [ok |-> FALSE, fs |-> f, path |-> r.path, err |-> r.err]
  ELSE IF r.path = <<>> \/ IsDir(f, r.path)
       THEN [ok |-> FALSE, fs |-> f, path |-> r.path, err |-> "IsADirectoryError"]
  ELSE IF ~IsDir(f, Front(r.path))
       THEN [ok |-> FALSE, fs |-> f, path |-> r.path, err |-> "FileNotFoundError"]
  ELSE [ok |-> TRUE, fs |-> IF Exists(f, r.path) THEN f ELSE Put(f, r.path, File(<<>>)),
        path |-> r.path, err |-> "none"]

\* open(path, "wb"): creates the file or truncates it to length 0
open_wb(f, path) ==
  LET r == Resolve(f, path) IN
  IF ~r.ok THEN [ok |-> FALSE, fs |-> f, path |-> r.path, err |-> r.err]
  ELSE IF r.path = <<>> \/ IsDir(f, r.path)
       THEN [ok |-> FALSE, fs |-> f, path |-> r.path, err |-> "IsADirectoryError"]
  ELSE IF ~Exists(f, Front(r.path))
       THEN [ok |-> FALSE, fs |-> f, path |-> r.path, err |-> "FileNotFoundError"]
  ELSE IF ~IsDir(f, Front(r.path))
       THEN [ok |-> FALSE, fs |-> f, path |-> r.path, err |-> "NotADirectoryError"]
  ELSE [ok |-> TRUE, fs |-> Put(f, r.path, File(<<>>)), path |-> r.path, err |-> "none"]

\* (variant: a descriptor in append mode, every write going to the end)
WriteAppend(old, data) == old \o data

\* f.write(data) on a descriptor opened at offset 0: the bytes replace the
\* first Len(data) bytes of the file, whatever lies beyond them stays
WriteAt0(old, data) == data \o SubSeq(old, Len(data) + 1, Len(old))

file_write(f, path, data) == Put(f, path, File(WriteAt0(f[path].content, data)))

\* shutil.copy(src, dst): into dst/basename(src) when dst is a directory,
\* onto dst itself otherwise; writable = FALSE is a destination the process
\* may not write (PermissionError, raised before anything is changed)
shutil_copy(f, src, dst, writable) ==
  LET into == IF os_path_isdir(f, dst) THEN dst \o <<Last(src)>> ELSE dst
      s == Resolve(f, src)
      d == Resolve(f, into)
  IN IF ~s.ok \/ ~IsFile(f, s.path) THEN [ok |-> FALSE, fs |-> f, err |-> "FileNotFoundError"]
     ELSE IF d.ok /\ d.path = s.path THEN [ok |-> FALSE, fs |-> f, err |-> "SameFileError"]
     ELSE IF ~writable THEN [ok |-> FALSE, fs |-> f, err |-> "PermissionError"]
     ELSE LET o == open_wb(f, into) IN
          IF ~o.ok THEN [ok |-> FALSE, fs |-> f, err |-> o.err]
          ELSE [ok |-> TRUE, fs |-> Put(f, o.path, File(f[s.path].content)), err |-> "none"]

\* os.listdir(path): the names directly inside the directory
Children(f, path) == {Last(q) : q \in {q \in DOMAIN f : Len(q) = Len(path) + 1 /\ Front(q) = path}}


\* ---------------------------------------------------------------- inputs
\* package names given on the command line, as "/"-separated segments
Names == {<<"a">>, <<"b">>, <<"..", "a">>, <<"sub", "a">>}

\* sys.argv[1:]
Argvs ==
  {<<>>, <<"install">>, <<"list">>, <<"list", <<"a">>>>, <<"frob">>, <<"frob", <<"a">>>>}
  \cup {<<"install", n>> : n \in Names}

\* response bodies: n times the byte b, so that a file made of bytes of two
\* different bodies is no body itself
Bytes == {1, 2}
Bodies == {[i \in 1..n |-> b] : n \in 0..MaxBodyLen, b \in Bytes}

\* what requests.get(url) can produce: an exception of the
\* requests.RequestException family, or a final response (redirects that
\* carry a Location are followed by the library and never seen here)
Statuses == {200, 304, 404}
\* response.raise_for_status(): HTTPError for 4xx and 5xx only
raise_for_status(status) == 400 <= status /\ status < 600

\* (the body of an error response is never read: it is left empty here)
Outcomes ==
  {[raised |-> TRUE, status |-> 0, content |-> <<>>]}
  \cup {r \in [raised : {FALSE}, status : Statuses, content : Bodies] :
          raise_for_status(r.status) => r.content = <<>>}

\* (variant: a bare `except Exception`)
except_any(e) == TRUE

\* except requests.RequestException as e: the exceptions the handler of
\* install_pkg catches; everything else leaves the script as a traceback
except_clause(e) == e \in {"ConnectionError", "HTTPError"}

\* the filesystems an invocation can find: ~/.nula and ~/.nula/lib absent,
\* a directory or a regular file; ./lib absent, a directory or a file
Base == Put(Put(<<>> :> Dir, home_dir, Dir), current_dir, Dir)

HomeLayouts ==
  { Base,
    Put(Base, nula_dir, File(<<>>)),
    Put(Base, nula_dir, Dir),
    Put(Put(Base, nula_dir, Dir), lib_dir, Dir),
    Put(Put(Put(Base, nula_dir, Dir), lib_dir, Dir), lib_dir \o <<C("sub")>>, Dir),
    Put(Put(Base, nula_dir, Dir), lib_dir, File(<<>>)) }

InitialFs ==
  UNION {{h, Put(h, project_lib, Dir), Put(h, project_lib, File(<<>>))} : h \in HomeLayouts}

\* ---------------------------------------------------------------- output
LineUsage == <<"Usage: nula-packages [install <pkg> | list]">>
LineInstallUsage == <<"Usage: nula-packages install <pkg>">>
LineUnknown(command) == <<"Unknown command: ", command>>
LineInstalled(pkg) == <<"Installed ", pkg, " from ", Url(pkg)>>
LineCopied == <<"Copied to project lib">>
LineError(pkg, e) == <<"Error installing ", pkg, ": ", e>>
LineHeader == <<"Installed packages:">>
LineEntry(name) == <<"- ", name>>
LineNone == <<"No packages installed.">>

\* ---------------------------------------------------------------- state
VARIABLES
  fs,          \* the filesystem shared by all invocations
  pc,          \* pc[p]: where invocation p stands
  argv,        \* argv[p]: sys.argv[1:]
  response,    \* response[p]: what requests.get produced
  copied,      \* copied[p]: "ok" / "failed" once shutil.copy returned / raised
  f,           \* f[p]: resolved path of the file p holds open for writing
  out,         \* out[p]: the lines p printed
  status,      \* status[p]: exit status, -1 while running
  exc,         \* exc[p]: the uncaught exception that ended p, or "none"
  called,      \* called[p]: which of install_pkg, list_pkgs, sys.exit p reached
  pkgs,        \* pkgs[p]: what os.listdir returned to p
  fs0,         \* fs0[p]: the filesystem when p was started
  runs,        \* invocations started so far
  lastWriter,  \* lastWriter[path]: whose f.write on path completed last
  wrote,       \* wrote[p]: <<path, data>> of p's last completed f.write
  overlapped   \* overlapped[p]: another f.write hit f[p] since p opened it

vars == <<fs, pc, argv, response, copied, f, out, status, exc, called, pkgs,
          fs0, runs, lastWriter, wrote, overlapped>>

NoResponse == [raised |-> FALSE, status |-> 0, content |-> <<>>]

Init ==
  /\ fs \in InitialFs
  /\ pc = [p \in Procs |-> "idle"]
  /\ argv = [p \in Procs |-> <<>>]
  /\ response = [p \in Procs |-> NoResponse]
  /\ copied = [p \in Procs |-> "none"]
  /\ f = [p \in Procs |-> <<>>]
  /\ out = [p \in Procs |-> <<>>]
  /\ status = [p \in Procs |-> -1]
  /\ exc = [p \in Procs |-> "none"]
  /\ called = [p \in Procs |-> {}]
  /\ pkgs = [p \in Procs |-> <<>>]
  /\ fs0 = [p \in Procs |-> fs]
  /\ runs = 0
  /\ lastWriter = <<>>
  /\ wrote = [p \in Procs |-> <<>>]
  /\ overlapped = [p \in Procs |-> FALSE]

\* the interpreter ends the process: normally with status 0, after
\* sys.exit(1) or an uncaught exception (traceback) with status 1
Ends(p, code, e) ==
  /\ pc' = [pc EXCEPT ![p] = "done"]
  /\ status' = [status EXCEPT ![p] = code]
  /\ exc' = [exc EXCEPT ![p] = e]

Goes(p, label) ==
  /\ pc' = [pc EXCEPT ![p] = label]
  /\ UNCHANGED <<status, exc>>

Prints(p, lines) == out' = [out EXCEPT ![p] = @ \o lines]

\* a new invocation of the script
Start(p) ==
  /\ pc[p] \in {"idle", "done"}
  /\ runs < MaxRuns
  /\ \E a \in Argvs : argv' = [argv EXCEPT ![p] = a]
  /\ runs' = runs + 1
  /\ pc' = [pc EXCEPT ![p] = "line16"]
  /\ status' = [status EXCEPT ![p] = -1]
  /\ exc' = [exc EXCEPT ![p] = "none"]
  /\ response' = [response EXCEPT ![p] = NoResponse]
  /\ copied' = [copied EXCEPT ![p] = "none"]
  /\ f' = [f EXCEPT ![p] = <<>>]
  /\ out' = [out EXCEPT ![p] = <<>>]
  /\ called' = [called EXCEPT ![p] = {}]
  /\ pkgs' = [pkgs EXCEPT ![p] = <<>>]
  /\ fs0' = [fs0 EXCEPT ![p] = fs]
  /\ overlapped' = [overlapped EXCEPT ![p] = FALSE]
  /\ UNCHANGED <<fs, lastWriter, wrote>>

\* if not os.path.exists(nula_dir):
check_nula_dir(p) ==
  /\ pc[p] = "line16"
  /\ Goes(p, IF os_path_exists(fs, nula_dir) THEN "line18" ELSE "line17")
  /\ UNCHANGED <<fs, argv, response, copied, f, out, called, pkgs, fs0, runs,
                 lastWriter, wrote, overlapped>>

\* (variant: the os.makedirs call left out)
MakeDirSkipped(p, path, next) ==
  /\ Goes(p, next)
  /\ UNCHANGED <<fs, argv, response, copied, f, out, called, pkgs, fs0, runs,
                 lastWriter, wrote, overlapped>>

\* os.makedirs(path) and what follows it
MakeDir(p, path, next) ==
  LET r == os_makedirs(fs, path) IN
  /\ fs' = r.fs
  /\ IF r.ok THEN Goes(p, next) ELSE Ends(p, 1, r.err)
  /\ UNCHANGED <<argv, response, copied, f, out, called, pkgs, fs0, runs,
                 lastWriter, wrote, overlapped>>

\*     os.makedirs(nula_dir)
make_nula_dir(p) ==
  /\ pc[p] = "line17"
  /\ MakeDir(p, nula_dir, "line18")

\* if not os.path.exists(lib_dir):
check_lib_dir(p) ==
  /\ pc[p] = "line18"
  /\ Goes(p, IF os_path_exists(fs, lib_dir) THEN "line50" ELSE "line19")
  /\ UNCHANGED <<fs, argv, response, copied, f, out, called, pkgs, fs0, runs,
                 lastWriter, wrote, overlapped>>

\*     os.makedirs(lib_dir)
make_lib_dir(p) ==
  /\ pc[p] = "line19"
  /\ MakeDir(p, lib_dir, "line50")


\* ---------------------------------------------------------------- commands
\* (variant: a dispatch that insists on the exact number of arguments)
RouteStrict(a) ==
  IF Len(a) < 1 THEN "usage"
  ELSE IF a[1] = "install" THEN (IF Len(a) < 2 THEN "install_usage" ELSE "install_pkg")
  ELSE IF a[1] = "list" /\ Len(a) = 1 THEN "list_pkgs"
  ELSE "unknown"

\* lines 50-64: where the command dispatch sends sys.argv[1:]
Route(a) ==
  IF Len(a) < 1 THEN "usage"
  ELSE IF a[1] = "install" THEN (IF Len(a) < 2 THEN "install_usage" ELSE "install_pkg")
  ELSE IF a[1] = "list" THEN "list_pkgs"
  ELSE "unknown"

dispatch(p) ==
  /\ pc[p] = "line50"
  /\ LET to == Route(argv[p]) IN
       /\ called' = [called EXCEPT ![p] =
                       @ \cup {IF to \in {"install_pkg", "list_pkgs"} THEN to ELSE "sys.exit"}]
       /\ CASE to = "usage" -> Prints(p, <<LineUsage>>) /\ Ends(p, 1, "none")
            [] to = "install_usage" -> Prints(p, <<LineInstallUsage>>) /\ Ends(p, 1, "none")
            [] to = "install_pkg" -> Goes(p, "line25") /\ UNCHANGED out
            [] to = "list_pkgs" -> Goes(p, "line42") /\ UNCHANGED out
            [] to = "unknown" -> Prints(p, <<LineUnknown(argv[p][1])>>) /\ Ends(p, 1, "none")
  /\ UNCHANGED <<fs, argv, response, copied, f, pkgs, fs0, runs, lastWriter, wrote, overlapped>>

\* the pkg argument and lib_path of install_pkg
Pkg(p) == argv[p][2]
lib_path(p) == Join(lib_dir, PkgFile(Pkg(p)))

\* an exception e raised inside the try block of install_pkg after `lines`
\* were printed: lines 38-39 when the except clause matches, after which
\* the script runs off its end; a traceback and status 1 otherwise
Raises(p, e, lines) ==
  IF except_clause(e)
  THEN /\ Prints(p, lines \o <<LineError(Pkg(p), e)>>)
       /\ Ends(p, 0, "none")
  ELSE /\ Prints(p, lines)
       /\ Ends(p, 1, e)

\* lines 25-26: the GET and raise_for_status
install_pkg_get(p) ==
  /\ pc[p] = "line25"
  /\ \E r \in Outcomes :
       /\ response' = [response EXCEPT ![p] = r]
       /\ IF r.raised THEN Raises(p, "ConnectionError", <<>>)
          ELSE IF raise_for_status(r.status) THEN Raises(p, "HTTPError", <<>>)
          ELSE Goes(p, "line28") /\ UNCHANGED out
  /\ UNCHANGED <<fs, argv, copied, f, called, pkgs, fs0, runs, lastWriter, wrote, overlapped>>

\* lines 27-28: with open(lib_path, "wb") as f
install_pkg_open(p) ==
  /\ pc[p] = "line28"
  /\ LET o == open_wb(fs, lib_path(p)) IN
       /\ fs' = o.fs
       /\ IF o.ok
          THEN /\ f' = [f EXCEPT ![p] = o.path]
               /\ Goes(p, "line29")
               /\ UNCHANGED out
          ELSE /\ Raises(p, o.err, <<>>)
               /\ UNCHANGED f
  /\ UNCHANGED <<argv, response, copied, called, pkgs, fs0, runs, lastWriter, wrote, overlapped>>

\* line 29: f.write(response.content), flushed when the with block closes f
\* (the body goes out in one write call)
install_pkg_write(p) ==
  /\ pc[p] = "line29"
  /\ fs' = file_write(fs, f[p], response[p].content)
  /\ lastWriter' = Put(lastWriter, f[p], p)
  /\ wrote' = [wrote EXCEPT ![p] = <<f[p], response[p].content>>]
  /\ overlapped' = [q \in Procs |->
                      overlapped[q] \/ (q # p /\ pc[q] = "line29" /\ f[q] = f[p])]
  /\ Goes(p, "line30")
  /\ UNCHANGED <<argv, response, copied, f, out, called, pkgs, fs0, runs>>

\* lines 30-37: the "Installed" message, then the copy into ./lib
install_pkg_sync(p) ==
  /\ pc[p] = "line30"
  /\ IF os_path_exists(fs, project_lib)
     THEN \E writable \in BOOLEAN :
          LET c == shutil_copy(fs, lib_path(p), project_lib, writable) IN
          /\ fs' = c.fs
          /\ copied' = [copied EXCEPT ![p] = IF c.ok THEN "ok" ELSE "failed"]
          /\ IF c.ok
             THEN /\ Prints(p, <<LineInstalled(Pkg(p)), LineCopied>>)
                  /\ Ends(p, 0, "none")
             ELSE Raises(p, c.err, <<LineInstalled(Pkg(p))>>)
     ELSE /\ Prints(p, <<LineInstalled(Pkg(p))>>)
          /\ Ends(p, 0, "none")
          /\ UNCHANGED <<fs, copied>>
  /\ UNCHANGED <<argv, response, f, called, pkgs, fs0, runs, lastWriter, wrote, overlapped>>

\* os.listdir returns the entries in an order of the file system's choosing
Enumerations(S) ==
  {e \in [1..Cardinality(S) -> S] : \A i, j \in DOMAIN e : i # j => e[i] # e[j]}

\* (variant: a loop that stops one entry short)
list_lines_short(e) ==
  IF e # <<>>
  THEN <<LineHeader>> \o [i \in 1..(Len(e) - 1) |-> LineEntry(e[i])]
  ELSE <<LineNone>>

\* lines 43-48: what list_pkgs prints for the enumeration pkgs
list_lines(e) ==
  IF e # <<>>
  THEN <<LineHeader>> \o [i \in DOMAIN e |-> LineEntry(e[i])]
  ELSE <<LineNone>>

\* lines 41-48
list_pkgs(p) ==
  /\ pc[p] = "line42"
  /\ IF ~os_path_exists(fs, lib_dir)
     THEN Ends(p, 1, "FileNotFoundError") /\ UNCHANGED <<out, pkgs>>
     ELSE IF ~os_path_isdir(fs, lib_dir)
     THEN Ends(p, 1, "NotADirectoryError") /\ UNCHANGED <<out, pkgs>>
     ELSE \E e \in Enumerations(Children(fs, lib_dir)) :
            /\ pkgs' = [pkgs EXCEPT ![p] = e]
            /\ Prints(p, list_lines(e))
            /\ Ends(p, 0, "none")
  /\ UNCHANGED <<fs, argv, response, copied, f, called, fs0, runs, lastWriter, wrote, overlapped>>

\* ---------------------------------------------------------------- specifications
Run(p) ==
  \/ check_nula_dir(p)
  \/ make_nula_dir(p)
  \/ check_lib_dir(p)
  \/ make_lib_dir(p)
  \/ dispatch(p)
  \/ install_pkg_get(p)
  \/ install_pkg_open(p)
  \/ install_pkg_write(p)
  \/ install_pkg_sync(p)
  \/ list_pkgs(p)

\* one invocation after the other, as section 5 of the specification has it
Next == Start(1) \/ Run(1)

Spec == Init /\ [][Next]_vars

\* two invocations at once, each started once, racing on the same files
InitConc ==
  /\ Init
  /\ fs \in {Base, Put(Put(Put(Base, nula_dir, Dir), lib_dir, Dir), project_lib, Dir)}

Launch(p) ==
  /\ pc[p] = "idle"
  /\ Start(p)

NextConc == \E p \in Procs : Launch(p) \/ Run(p)

SpecConc == InitConc /\ [][NextConc]_vars


\* ---------------------------------------------------------------- properties
Done(p) == pc[p] = "done"
Installing(p) == "install_pkg" \in called[p]
\* p's f.write in this invocation has completed
Written(p) == Installing(p) /\ f[p] # <<>> /\ pc[p] \in {"line30", "done"}
\* the command dispatch was reached (the directory initialisation did not raise)
Dispatched(p) == pc[p] \notin {"idle", "line16", "line17", "line18", "line19"} /\ called[p] # {}

IsUnder(q, dir) == Len(q) > Len(dir) /\ SubSeq(q, 1, Len(dir)) = dir
\* names and contents of everything inside a directory
Under(g, dir) == [q \in {q \in DOMAIN g : IsUnder(q, dir)} |-> g[q]]

Is2xx(n) == 200 <= n /\ n < 300
\* the GET of the claims: failed = an exception or a status outside 2xx
GetFailed(p) == response[p].raised \/ ~Is2xx(response[p].status)
GetSucceeded(p) == ~response[p].raised /\ Is2xx(response[p].status)
Fetched(p) == Installing(p) /\ Done(p) /\ response[p] # NoResponse

\* the ordinary case of an install: a name without "/" and a library
\* directory that was a directory when the command started
Ordinary(p) == Len(Pkg(p)) = 1 /\ os_path_isdir(fs0[p], lib_dir)

\* C1: when the GET of `install p` fails (non-2xx status or network error)
\* the library directory has the names and contents it had before the command
\* and exactly one error line naming p was printed.
C1_FailedGetLeavesLibrary ==
  \A p \in Procs :
    (Fetched(p) /\ GetFailed(p) /\ Ordinary(p)) =>
      /\ Under(fs, lib_dir) = Under(fs0[p], lib_dir)
      /\ Len(out[p]) = 1
      /\ out[p][1][1] = "Error installing "
      /\ out[p][1][2] = Pkg(p)

\* C2: after `install p` whose GET returned 2xx with body B, the library
\* directory (a directory when the command started) contains the file p.nula
\* with content B.
C2_SuccessStoresBody ==
  \A p \in Procs :
    (Fetched(p) /\ GetSucceeded(p) /\ os_path_isdir(fs0[p], lib_dir)) =>
      LET r == Resolve(fs, lib_path(p)) IN
        /\ r.ok
        /\ IsFile(fs, r.path)
        /\ IsUnder(r.path, lib_dir)
        /\ fs[r.path].content = response[p].content

\* C3: once an install has written its artifact, the file at lib_path holds
\* exactly the body just fetched (nothing of an earlier artifact remains), and
\* every other entry of the library directory is the one that was there when
\* the command started: no second file was made for the package.
C3_ReinstallReplaces ==
  \A p \in Procs :
    Written(p) =>
      /\ IsFile(fs, f[p])
      /\ fs[f[p]].content = response[p].content
      /\ \A q \in DOMAIN fs :
           (IsUnder(q, lib_dir) /\ q # f[p]) => (q \in DOMAIN fs0[p] /\ fs[q] = fs0[p][q])
      /\ \A q \in DOMAIN fs0[p] : IsUnder(q, lib_dir) => q \in DOMAIN fs

\* C3 witness: a second install of a name has replaced a longer artifact
C3_Witness ==
  /\ Done(1) /\ Written(1)
  /\ f[1] \in DOMAIN fs0[1]
  /\ Len(fs0[1][f[1]].content) > Len(response[1].content)
  /\ response[1].content # <<>>

\* C4: after a successful fetch of a plain name, with a destination the
\* process may write: if ./lib exists, ./lib/p.nula has the content of the
\* library file; if it does not, ./lib is not created and nothing but the
\* "Installed" line is printed, without error.
C4_ProjectCopy ==
  \A p \in Procs :
    (Done(p) /\ Written(p) /\ Len(Pkg(p)) = 1 /\ exc[p] # "PermissionError") =>
      IF Exists(fs0[p], project_lib)
      THEN /\ IsFile(fs, project_lib \o PkgFile(Pkg(p)))
           /\ fs[project_lib \o PkgFile(Pkg(p))].content = fs[f[p]].content
      ELSE /\ ~Exists(fs, project_lib)
           /\ Len(out[p]) = 1
           /\ exc[p] = "none"

\* the usage-error cases of the command line
UsageError(a) ==
  \/ Len(a) = 0
  \/ (a[1] = "install" /\ Len(a) = 1)
  \/ a[1] \notin {"install", "list"}

\* C5: the dispatcher calls sys.exit(1) in exactly the usage-error cases (no
\* arguments, `install` without a name, a first argument other than install
\* and list), prints the matching message and calls neither install_pkg nor
\* list_pkgs there; `list` runs list_pkgs whatever follows it.
C5_UsageErrors ==
  \A p \in Procs :
    (Done(p) /\ Dispatched(p)) =>
      /\ ("sys.exit" \in called[p]) <=> UsageError(argv[p])
      /\ UsageError(argv[p]) =>
           /\ called[p] = {"sys.exit"}
           /\ status[p] = 1
           /\ Len(out[p]) = 1
           /\ out[p][1][1] = (IF Len(argv[p]) = 0 THEN LineUsage[1]
                              ELSE IF argv[p][1] = "install" THEN LineInstallUsage[1]
                              ELSE "Unknown command: ")
           /\ (Len(out[p][1]) > 1 => out[p][1][2] = argv[p][1])
           /\ (Len(out[p][1]) > 1 <=> (Len(argv[p]) > 0 /\ argv[p][1] # "install"))
      /\ (~UsageError(argv[p]) /\ argv[p][1] = "list") => called[p] = {"list_pkgs"}
      /\ (~UsageError(argv[p]) /\ argv[p][1] = "install") => called[p] = {"install_pkg"}

\* C5 witness: list with an extra argument has listed
C5_Witness ==
  /\ Done(1) /\ Len(argv[1]) = 2 /\ argv[1][1] = "list" /\ called[1] = {"list_pkgs"}
  /\ status[1] = 0

\* C6: list prints exactly the entries directly inside the library
\* directory: a header and one line per entry, in the order of the
\* enumeration, none missing or repeated; the "no packages" line alone when
\* the directory is empty.
C6_ListIsLibrary ==
  \A p \in Procs :
    (Done(p) /\ "list_pkgs" \in called[p] /\ exc[p] = "none") =>
      LET names == Children(fs, lib_dir) IN
        IF names = {}
        THEN out[p] = <<LineNone>>
        ELSE /\ Len(out[p]) = 1 + Cardinality(names)
             /\ out[p][1] = LineHeader
             /\ {out[p][i][2] : i \in 2..Len(out[p])} = names
             /\ \A i \in 2..Len(out[p]) : out[p][i] = LineEntry(pkgs[p][i - 1])

C6_Witness ==
  /\ Done(1) /\ "list_pkgs" \in called[1] /\ exc[1] = "none"
  /\ Cardinality(Children(fs, lib_dir)) >= 2

BothExist(g) == os_path_exists(g, nula_dir) /\ os_path_exists(g, lib_dir)
\* the directory initialisation of p raised
StartupFailed(p) == Done(p) /\ called[p] = {}

C8_NetworkFailureExitsZero ==
  \A p \in Procs :
    (Fetched(p) /\ GetFailed(p) /\ Ordinary(p)) =>
      /\ status[p] = 0
      /\ exc[p] = "none"
      /\ Len(out[p]) >= 1
      /\ out[p][Len(out[p])][1] = "Error installing "

\* C9 as claimed: when the copy into ./lib fails after a successful fetch,
\* install prints a message about it and the exit status is that of a
\* successful install, 0.
C9_CopyFailureReported ==
  \A p \in Procs :
    (Done(p) /\ copied[p] = "failed") =>
      /\ status[p] = 0
      /\ exc[p] = "none"
      /\ Len(out[p]) >= 2
      /\ out[p][Len(out[p])][1] = "Error installing "

\* C9 amended: when the copy into ./lib fails after a successful fetch, the
\* exception is not caught: the script ends in a traceback with exit status
\* 1, having printed only the "Installed" line; the library file keeps the
\* fetched body.
C9_CopyFailureUncaught ==
  \A p \in Procs :
    (Done(p) /\ copied[p] = "failed") =>
      /\ status[p] = 1
      /\ exc[p] \in {"PermissionError", "IsADirectoryError", "SameFileError",
                     "FileNotFoundError", "NotADirectoryError"}
      /\ Len(out[p]) = 1
      /\ out[p][1] = LineInstalled(Pkg(p))
      /\ Written(p)
      /\ fs[f[p]].content = response[p].content

C9_Witness ==
  Done(1) /\ copied[1] = "failed" /\ exc[1] = "PermissionError" /\ response[1].content # <<>>

\* the two invocations both installed the same name and are over
BothInstalled ==
  /\ \A p \in Procs : Done(p) /\ Written(p)
  /\ argv[1] = argv[2]
  /\ f[1] = f[2]

\* C10 as claimed: after two concurrent installs of the same name the file
\* holds exactly the body of the invocation whose write finished last.
C10_LastWriterWins ==
  BothInstalled =>
    fs[f[1]].content = response[lastWriter[f[1]]].content

\* C10 amended: the file holds exactly the last writer's body unless the
\* other invocation's write fell between the last writer's open and its
\* write; then it holds the last writer's body followed by the bytes of the
\* other body beyond its length (a mixture when the other body is longer).
C10_LastWriterOverwritesPrefix ==
  BothInstalled =>
    LET last == lastWriter[f[1]]
        other == CHOOSE p \in Procs : p # last
    IN fs[f[1]].content =
         IF overlapped[last]
         THEN response[last].content
                \o SubSeq(response[other].content, Len(response[last].content) + 1,
                          Len(response[other].content))
         ELSE response[last].content

\* C10 witness: the file is a mixture of the two bodies
C10_Witness ==
  /\ BothInstalled
  /\ fs[f[1]].content # response[1].content
  /\ fs[f[1]].content # response[2].content

====
